---- MODULE Spec2Model ----
(***************************************************************************)
(* Statement normalisation and ratio computation of edgartools:            *)
(*   src/edgar/xbrl/analysis/financial_ratio_analyzer.py                   *)
(*        FinancialRatioAnalyzer (constructor and the two ratio calls)     *)
(*   src/Rav/tickerinput.py                                                *)
(*        ensure_dataframe, fetch_and_prepare_statements                   *)
(*   src/1Financialstatements.py                                           *)
(*        normalize_statement                                              *)
(*                                                                         *)
(* Python values are records [tag, v] with an integer payload:             *)
(*   int n, the decimal string of n, a non-numeric string, None, float nan *)
(* A pandas DataFrame is a record [columns, index, rows]: the set of       *)
(* column labels, the row keys in row order, and one cell map per row.     *)
(***************************************************************************)
EXTENDS Integers, Sequences, FiniteSets, TLC

\* ------------------------------------------------------------------ bounds
\* most rows of a table handed to the engine
MaxRows == 2
\* most entries of a caller-supplied period list
MaxPeriods == 2
\* numeric cells range over -MaxVal .. MaxVal
MaxVal == 1

\* ----------------------------------------------------------- Python values
PyInt(n) == [tag |-> "int", v |-> n]
PyStr(n) == [tag |-> "str", v |-> n]
PyText == [tag |-> "text", v |-> 0]
PyNone == [tag |-> "none", v |-> 0]
PyNaN == [tag |-> "nan", v |-> 0]

\* str(x) / Index.astype(str) on one label: an int becomes its decimal string
str(x) ==
  CASE x.tag = "int" -> PyStr(x.v)
    [] x.tag = "str" -> x
    [] x.tag = "text" -> x
    [] x.tag = "none" -> PyText
    [] x.tag = "nan" -> PyText

astype_str(index) == [i \in 1..Len(index) |-> str(index[i])]

\* decimal digits of a natural number, most significant first
RECURSIVE Digits(_)
Digits(n) == IF n < 10 THEN <<n>> ELSE Append(Digits(n \div 10), n % 10)

\* Python's ordering of two str values that are decimal strings
RECURSIVE SeqLess(_, _)
SeqLess(a, b) ==
  IF a = <<>> THEN b /= <<>>
  ELSE IF b = <<>> THEN FALSE
  ELSE IF a[1] /= b[1] THEN a[1] < b[1]
  ELSE SeqLess(Tail(a), Tail(b))

StrLess(a, b) == SeqLess(Digits(a.v), Digits(b.v))

\* sorted(s) for a set of decimal strings
RECURSIVE sorted(_)
sorted(s) ==
  IF s = {} THEN <<>>
  ELSE LET m == CHOOSE x \in s : \A y \in s \ {x} : StrLess(x, y)
       IN <<m>> \o sorted(s \ {m})

Range(f) == {f[i] : i \in DOMAIN f}

\* float(x): [exc, val]; exc is "" when the conversion succeeds
float(x) ==
  CASE x.tag = "int" -> [exc |-> "", val |-> [kind |-> "num", n |-> x.v]]
    [] x.tag = "str" -> [exc |-> "", val |-> [kind |-> "num", n |-> x.v]]
    [] x.tag = "nan" -> [exc |-> "", val |-> [kind |-> "nan", n |-> 0]]
    [] x.tag = "text" -> [exc |-> "ValueError", val |-> [kind |-> "nan", n |-> 0]]
    [] x.tag = "none" -> [exc |-> "TypeError", val |-> [kind |-> "nan", n |-> 0]]

\* float results: +inf, nan, or the exact quotient num/den in lowest terms
Inf == [kind |-> "inf", num |-> 0, den |-> 0]
NaN == [kind |-> "nan", num |-> 0, den |-> 0]

Abs(n) == IF n < 0 THEN -n ELSE n

RECURSIVE Gcd(_, _)
Gcd(a, b) == IF b = 0 THEN a ELSE Gcd(b, a % b)

\* a / b for two floats, b /= 0
TrueDiv(a, b) ==
  IF a.kind = "nan" \/ b.kind = "nan" THEN NaN
  ELSE LET g == Gcd(Abs(a.n), Abs(b.n))
           s == IF b.n < 0 THEN -1 ELSE 1
       IN [kind |-> "num", num |-> s * (a.n \div g), den |-> s * (b.n \div g)]

\* x == 0 for a float (nan compares unequal to everything)
IsZero(x) == x.kind = "num" /\ x.n = 0

\* --------------------------------------------------------------- DataFrames
DataFrame(columns, index, rows) ==
  [columns |-> columns, index |-> index, rows |-> rows]

\* a faulty variant of set_index: of equal period values the last row wins
set_index_dedup(df) ==
  LET keep == {i \in 1..Len(df.rows) :
                 \A j \in (i+1)..Len(df.rows) : df.rows[j]["period"] /= df.rows[i]["period"]}
      cols == df.columns \ {"period"}
      pick == SelectSeq([i \in 1..Len(df.rows) |-> i], LAMBDA i : i \in keep)
  IN DataFrame(cols,
               [k \in 1..Len(pick) |-> df.rows[pick[k]]["period"]],
               [k \in 1..Len(pick) |-> [c \in cols |-> df.rows[pick[k]][c]]])

\* df.set_index("period"): the period column becomes the row keys, row by row
set_index(df) ==
  LET cols == df.columns \ {"period"}
  IN DataFrame(cols,
               [i \in 1..Len(df.rows) |-> df.rows[i]["period"]],
               [i \in 1..Len(df.rows) |-> [c \in cols |-> df.rows[i][c]]])

\* df.loc[key]: the positions of the rows whose key equals key
loc(df, key) == {i \in 1..Len(df.index) : df.index[i] = key}

\* ------------------------------------------------------------------- state
VARIABLES
  heap,        \* the DataFrame objects that exist, by reference (position)
  given,       \* the caller's tables as they were when handed over
  args,        \* the constructor arguments: three references and periods
  self,        \* the FinancialRatioAnalyzer instance
  ret,         \* outcome of the last ratio call
  statements,  \* the provider's statement accessors of the latest filing
  fetched,     \* outcome of fetch_and_prepare_statements
  value,       \* the object handed to ensure_dataframe / normalize_statement
  ed,          \* outcome of ensure_dataframe(value)
  ns           \* outcome of normalize_statement(value)

vars == <<heap, given, args, self, ret, statements, fetched, value, ed, ns>>

NoneRef == 0

NoSelf ==
  [built |-> FALSE, balance_sheet |-> NoneRef, income_stmt |-> NoneRef,
   cash_flow |-> NoneRef, periods |-> <<>>]

NoRet ==
  [op |-> "", exc |-> "", df_name |-> "", missing |-> <<>>,
   results |-> <<>>, partial |-> <<>>]

\* ------------------------------------------------ FinancialRatioAnalyzer
\* a faulty variant of copy: the same object, not a new one
copy_alias(h, ref) == [heap |-> h, ref |-> ref]

\* df.copy(): a new object with the same content
copy(h, ref) == [heap |-> Append(h, h[ref]), ref |-> Len(h) + 1]

\* a faulty variant of the derived Period Set: the strings ordered as numbers
RECURSIVE sorted_numeric(_)
sorted_numeric(s) ==
  IF s = {} THEN <<>>
  ELSE LET m == CHOOSE x \in s : \A y \in s \ {x} : x.v < y.v
       IN <<m>> \o sorted_numeric(s \ {m})

common_periods_numeric(bs, is) ==
  sorted_numeric(Range(astype_str(bs.index)) \cap Range(astype_str(is.index)))

\* sorted(set(bs.index.astype(str)) & set(is.index.astype(str)))
common_periods(bs, is) ==
  sorted(Range(astype_str(bs.index)) \cap Range(astype_str(is.index)))

\* __init__: [heap, self] after construction from the arguments a
FinancialRatioAnalyzer_init(h, a) ==
  LET c1 == copy(h, a.balance_sheet_df)
      c2 == copy(c1.heap, a.income_stmt_df)
      c3 == IF a.cash_flow_df = NoneRef
            THEN [heap |-> c2.heap, ref |-> NoneRef]
            ELSE copy(c2.heap, a.cash_flow_df)
      dfs == IF c3.ref /= NoneRef THEN {c1.ref, c2.ref, c3.ref} ELSE {c1.ref, c2.ref}
      h2 == [r \in DOMAIN c3.heap |->
               IF r \in dfs /\ "period" \in c3.heap[r].columns
               THEN set_index(c3.heap[r]) ELSE c3.heap[r]]
      ps == IF a.periods.given THEN a.periods.list
            ELSE common_periods(h2[c1.ref], h2[c2.ref])
  IN [heap |-> h2,
      self |-> [built |-> TRUE, balance_sheet |-> c1.ref, income_stmt |-> c2.ref,
                cash_flow |-> c3.ref, periods |-> ps]]

\* a faulty variant of _require_columns: only the first missing column
require_columns_first(df, cols) ==
  LET missing == SelectSeq(cols, LAMBDA c : c \notin df.columns)
  IN IF missing = <<>> THEN <<>> ELSE <<missing[1]>>

\* _require_columns: the missing columns of df among cols, in the order of cols
require_columns(df, cols) == SelectSeq(cols, LAMBDA c : c \notin df.columns)

\* float(row[col]) for row = df.loc[key]; several matching rows make row[col]
\* a Series, which float() rejects with TypeError
cell_float(df, at, col) ==
  IF Cardinality(at) > 1
  THEN [exc |-> "TypeError", val |-> [kind |-> "nan", n |-> 0]]
  ELSE float(df.rows[CHOOSE i \in at : TRUE][col])

RatioResult(name, period, result) ==
  [name |-> name, period |-> period, result |-> result]

\* a faulty variant of lines 71-74: +inf for a positive numerator only
current_ratio_value_nozero(current_assets, current_liabilities) ==
  IF IsZero(current_liabilities) /\ current_assets.kind = "num" /\ current_assets.n > 0
  THEN Inf
  ELSE IF IsZero(current_liabilities) THEN NaN
  ELSE TrueDiv(current_assets, current_liabilities)

\* lines 71-74
current_ratio_value(current_assets, current_liabilities) ==
  IF IsZero(current_liabilities) THEN Inf
  ELSE TrueDiv(current_assets, current_liabilities)

\* lines 99-102
roa_value(net_income, total_assets) ==
  IF IsZero(total_assets) THEN Inf
  ELSE TrueDiv(net_income, total_assets)

\* the loop of calculate_current_ratio from entry i on
RECURSIVE current_ratio_loop(_, _, _, _)
current_ratio_loop(bs, periods, i, results) ==
  IF i > Len(periods) THEN [exc |-> "", results |-> results]
  ELSE
    LET period == periods[i] IN
    IF period \notin Range(astype_str(bs.index))
    THEN current_ratio_loop(bs, periods, i + 1, results)
    ELSE
      LET row == loc(bs, str(period)) IN
      IF row = {} THEN [exc |-> "KeyError", results |-> results]
      ELSE
        LET ca == cell_float(bs, row, "current_assets")
            cl == cell_float(bs, row, "current_liabilities")
        IN IF ca.exc /= "" \/ cl.exc /= ""
           THEN current_ratio_loop(bs, periods, i + 1, results)
           ELSE current_ratio_loop(bs, periods, i + 1,
                  Append(results, RatioResult("Current Ratio", str(period),
                                              current_ratio_value(ca.val, cl.val))))

calculate_current_ratio(h, s) ==
  LET bs == h[s.balance_sheet]
      missing == require_columns(bs, <<"current_assets", "current_liabilities">>)
  IN IF missing /= <<>>
     THEN [op |-> "calculate_current_ratio", exc |-> "ValueError",
           df_name |-> "balance_sheet", missing |-> missing,
           results |-> <<>>, partial |-> <<>>]
     ELSE LET out == current_ratio_loop(bs, s.periods, 1, <<>>)
          IN [op |-> "calculate_current_ratio", exc |-> out.exc,
              df_name |-> "", missing |-> <<>>,
              results |-> IF out.exc = "" THEN out.results ELSE <<>>,
              partial |-> out.results]

\* the loop of calculate_return_on_assets from entry i on
RECURSIVE return_on_assets_loop(_, _, _, _, _)
return_on_assets_loop(is, bs, periods, i, results) ==
  IF i > Len(periods) THEN [exc |-> "", results |-> results]
  ELSE
    LET period == periods[i] IN
    IF period \notin Range(astype_str(is.index)) \/ period \notin Range(astype_str(bs.index))
    THEN return_on_assets_loop(is, bs, periods, i + 1, results)
    ELSE
      LET ni_row == loc(is, str(period))
          bs_row == loc(bs, str(period))
      IN
      IF ni_row = {} \/ bs_row = {} THEN [exc |-> "KeyError", results |-> results]
      ELSE
        LET ni == cell_float(is, ni_row, "net_income")
            ta == cell_float(bs, bs_row, "total_assets")
        IN IF ni.exc /= "" \/ ta.exc /= ""
           THEN return_on_assets_loop(is, bs, periods, i + 1, results)
           ELSE return_on_assets_loop(is, bs, periods, i + 1,
                  Append(results, RatioResult("Return on Assets", str(period),
                                              roa_value(ni.val, ta.val))))

calculate_return_on_assets(h, s) ==
  LET is == h[s.income_stmt]
      bs == h[s.balance_sheet]
      missing_is == require_columns(is, <<"net_income">>)
      missing_bs == require_columns(bs, <<"total_assets">>)
  IN IF missing_is /= <<>>
     THEN [op |-> "calculate_return_on_assets", exc |-> "ValueError",
           df_name |-> "income_stmt", missing |-> missing_is,
           results |-> <<>>, partial |-> <<>>]
     ELSE IF missing_bs /= <<>>
     THEN [op |-> "calculate_return_on_assets", exc |-> "ValueError",
           df_name |-> "balance_sheet", missing |-> missing_bs,
           results |-> <<>>, partial |-> <<>>]
     ELSE LET out == return_on_assets_loop(is, bs, s.periods, 1, <<>>)
          IN [op |-> "calculate_return_on_assets", exc |-> out.exc,
              df_name |-> "", missing |-> <<>>,
              results |-> IF out.exc = "" THEN out.results ELSE <<>>,
              partial |-> out.results]

\* ------------------------------------------------------ statement objects
\* What a call or an attribute yields: kind is "absent", "raises",
\* "DataFrame", "list" (a list of row dicts), "dict_scalars" (a dict of
\* scalars, which pd.DataFrame rejects), "None" or "other"; data is the
\* table or the rows it carries.
NoData == [columns |-> {}, index |-> <<>>, rows |-> <<>>]

Yield(kind, data) == [kind |-> kind, data |-> data]

Absent == Yield("absent", NoData)
Raises == Yield("raises", NoData)
Other == Yield("other", NoData)

RangeIndex(n) == [i \in 1..n |-> PyInt(i - 1)]

\* pd.DataFrame(res) for a list/dict/tuple res: [exc, df]
pd_DataFrame(res) ==
  IF res.kind = "list"
  THEN [exc |-> "",
        df |-> DataFrame(res.data.columns, RangeIndex(Len(res.data.rows)), res.data.rows)]
  ELSE [exc |-> "ValueError", df |-> NoData]

IsRecords(y) == y.kind \in {"list", "dict_scalars"}

\* line 60
ED_METHODS ==
  <<"to_frame", "to_dataframe", "to_df", "to_pandas", "as_dataframe", "as_df", "as_pandas">>

\* line 75
ED_ATTRS == <<"df", "data", "dataframe", "table", "rows", "items", "statements">>

\* src/1Financialstatements.py line 55
NS_METHODS == <<"get_dataframe", "to_pandas", "to_dataframe">>

MethodNames == Range(ED_METHODS) \cup Range(NS_METHODS)
AttrNames == Range(ED_ATTRS)

\* pd.json_normalize(obj.__dict__): one row holding the object's fields
json_normalize ==
  DataFrame({"field"}, RangeIndex(1), <<[c \in {"field"} |-> PyText]>>)

EdOut(exc, df, calls) == [exc |-> exc, df |-> df, calls |-> calls, self_calls |-> 0]

\* lines 83-103: the value itself as records, then its field bag, then TypeError
ensure_dataframe_tail(obj, calls) ==
  IF IsRecords(obj) /\ pd_DataFrame(obj).exc = ""
  THEN EdOut("", pd_DataFrame(obj).df, calls)
  ELSE IF obj.dict THEN EdOut("", json_normalize, calls)
  ELSE EdOut("TypeError", NoData, calls)

\* lines 75-81: the attribute probe from position i on
RECURSIVE ensure_dataframe_attrs(_, _, _)
ensure_dataframe_attrs(obj, i, calls) ==
  IF i > Len(ED_ATTRS) THEN ensure_dataframe_tail(obj, calls)
  ELSE
    LET val == obj.attrs[ED_ATTRS[i]] IN
    IF val.kind = "DataFrame" THEN EdOut("", val.data, calls)
    ELSE IF IsRecords(val)
    THEN EdOut(pd_DataFrame(val).exc, pd_DataFrame(val).df, calls)
    ELSE ensure_dataframe_attrs(obj, i + 1, calls)

\* a faulty variant of the probe: a failing conversion method aborts it
RECURSIVE ensure_dataframe_methods_raise(_, _, _)
ensure_dataframe_methods_raise(obj, i, calls) ==
  IF i > Len(ED_METHODS) THEN ensure_dataframe_attrs(obj, 1, calls)
  ELSE
    LET res == obj.methods[ED_METHODS[i]]
        now == Append(calls, ED_METHODS[i])
    IN
    IF res.kind = "absent" THEN ensure_dataframe_methods_raise(obj, i + 1, calls)
    ELSE IF res.kind = "raises" THEN EdOut("Exception", NoData, now)
    ELSE IF res.kind = "DataFrame" THEN EdOut("", res.data, now)
    ELSE IF IsRecords(res) /\ pd_DataFrame(res).exc = ""
    THEN EdOut("", pd_DataFrame(res).df, now)
    ELSE ensure_dataframe_methods_raise(obj, i + 1, now)

\* lines 60-72: the conversion-method probe from position i on
RECURSIVE ensure_dataframe_methods(_, _, _)
ensure_dataframe_methods(obj, i, calls) ==
  IF i > Len(ED_METHODS) THEN ensure_dataframe_attrs(obj, 1, calls)
  ELSE
    LET res == obj.methods[ED_METHODS[i]]
        now == Append(calls, ED_METHODS[i])
    IN
    IF res.kind = "absent" THEN ensure_dataframe_methods(obj, i + 1, calls)
    ELSE IF res.kind = "raises" THEN ensure_dataframe_methods(obj, i + 1, now)
    ELSE IF res.kind = "DataFrame" THEN EdOut("", res.data, now)
    ELSE IF IsRecords(res) /\ pd_DataFrame(res).exc = ""
    THEN EdOut("", pd_DataFrame(res).df, now)
    ELSE ensure_dataframe_methods(obj, i + 1, now)

ensure_dataframe(obj) ==
  IF obj.kind = "DataFrame" THEN EdOut("", obj.data, <<>>)
  ELSE IF obj.kind = "None" THEN EdOut("TypeError", NoData, <<>>)
  ELSE ensure_dataframe_methods(obj, 1, <<>>)

NsOut(exc, out, self_calls, calls) ==
  [exc |-> exc, out |-> out, self_calls |-> self_calls, calls |-> calls]

\* lines 54-64 of normalize_statement, on what stmt is after the call step
RECURSIVE normalize_statement_convert(_, _, _)
normalize_statement_convert(stmt, i, self_calls) ==
  IF i > Len(NS_METHODS)
  THEN IF stmt.kind = "DataFrame"
       THEN NsOut("", Yield("DataFrame", stmt.data), self_calls, <<>>)
       ELSE NsOut("TypeError", Absent, self_calls, <<>>)
  ELSE
    LET res == stmt.methods[NS_METHODS[i]] IN
    IF res.kind = "absent" THEN normalize_statement_convert(stmt, i + 1, self_calls)
    ELSE IF res.kind = "raises"
    THEN NsOut("Exception", Absent, self_calls, <<NS_METHODS[i]>>)
    ELSE NsOut("", res, self_calls, <<NS_METHODS[i]>>)

\* a faulty variant of normalize_statement: the callable is never called
normalize_statement_nocall(stmt) == normalize_statement_convert(stmt, 1, 0)

\* lines 50-52, then the conversion of what stmt then is
normalize_statement(stmt) ==
  IF stmt.call.kind = "absent" THEN normalize_statement_convert(stmt, 1, 0)
  ELSE IF stmt.call.kind = "raises" THEN NsOut("Exception", Absent, 1, <<>>)
  ELSE normalize_statement_convert(stmt.call.ret, 1, 1)

\* -------------------------------------------- fetch_and_prepare_statements
\* _normalize (lines 139-143); tables are handed on by value here
normalize(df) ==
  LET d == IF "period" \in df.columns THEN set_index(df) ELSE df
  IN DataFrame(d.columns, astype_str(d.index), d.rows)

NoneValue ==
  [kind |-> "None", data |-> NoData,
   methods |-> [m \in MethodNames |-> Absent], attrs |-> [a \in AttrNames |-> Absent],
   call |-> [kind |-> "absent", ret |-> Absent], dict |-> FALSE]

FetchOut(exc, bs, is, cf, cf_none) ==
  [done |-> TRUE, exc |-> exc, bs_df |-> bs, is_df |-> is, cf_df |-> cf, cf_none |-> cf_none]

NoFetch ==
  [done |-> FALSE, exc |-> "", bs_df |-> NoData, is_df |-> NoData, cf_df |-> NoData,
   cf_none |-> TRUE]

\* lines 123-131: [exc, obj] of the cash-flow accessors
cashflow_object(st) ==
  IF st.cashflow_statement.kind /= "raises"
  THEN [exc |-> "", obj |-> st.cashflow_statement.ret]
  ELSE IF st.cash_flow.kind = "absent" THEN [exc |-> "", obj |-> NoneValue]
  ELSE IF st.cash_flow.kind = "raises" THEN [exc |-> "Exception", obj |-> NoneValue]
  ELSE [exc |-> "", obj |-> st.cash_flow.ret]

fetch_and_prepare_statements(st) ==
  IF st.latest = "None" THEN FetchOut("RuntimeError", NoData, NoData, NoData, TRUE)
  ELSE
    LET cf == cashflow_object(st)
        bs_df == ensure_dataframe(st.balance_sheet)
        is_df == ensure_dataframe(st.income_statement)
        cf_df == ensure_dataframe(cf.obj)
    IN
    IF cf.exc /= "" THEN FetchOut(cf.exc, NoData, NoData, NoData, TRUE)
    ELSE IF bs_df.exc /= "" THEN FetchOut(bs_df.exc, NoData, NoData, NoData, TRUE)
    ELSE IF is_df.exc /= "" THEN FetchOut(is_df.exc, NoData, NoData, NoData, TRUE)
    ELSE IF cf.obj.kind = "None"
    THEN FetchOut("", normalize(bs_df.df), normalize(is_df.df), NoData, TRUE)
    ELSE IF cf_df.exc /= "" THEN FetchOut(cf_df.exc, NoData, NoData, NoData, TRUE)
    ELSE FetchOut("", normalize(bs_df.df), normalize(is_df.df), normalize(cf_df.df), FALSE)

\* ------------------------------------------------------------------ inputs
\* most conversion methods an object exposes
MaxMethods == 3

\* row keys: the strings "2" and "10" and the integer 2
Keys == {PyStr(2), PyStr(10), PyInt(2)}

IndexSeqs == UNION {[1..n -> Keys] : n \in 0..MaxRows}

BalanceColumns == {"current_assets", "current_liabilities", "total_assets"}
IncomeColumns == {"net_income"}

\* a table whose n-th row holds n-dependent numbers (the second row has
\* current_liabilities 0 and total_assets 0)
NumberedTable(columns, index) ==
  DataFrame(columns, index,
            [i \in 1..Len(index) |->
               [c \in columns |->
                  CASE c = "current_assets" -> PyInt(2 * i)
                    [] c = "current_liabilities" -> PyInt(2 - i)
                    [] c = "total_assets" -> PyInt(4 - 2 * i)
                    [] c = "net_income" -> PyInt(i - 2)
                    [] OTHER -> PyInt(i)]])

\* the same table with its row keys held in a "period" column instead
WithPeriodColumn(df) ==
  DataFrame(df.columns \cup {"period"}, RangeIndex(Len(df.index)),
            [i \in 1..Len(df.index) |->
               [c \in df.columns \cup {"period"} |->
                  IF c = "period" THEN df.index[i] ELSE df.rows[i][c]]])

Shaped(df, with_column) == IF with_column THEN WithPeriodColumn(df) ELSE df

NoPeriods == [given |-> FALSE, list |-> <<>>]
Periods(list) == [given |-> TRUE, list |-> list]

PeriodLists == UNION {[1..n -> Keys] : n \in 0..MaxPeriods}

Args(cash_flow_ref, periods) ==
  [balance_sheet_df |-> 1, income_stmt_df |-> 2, cash_flow_df |-> cash_flow_ref,
   periods |-> periods]

\* a statement value that is a DataFrame, a list of row dicts, a dict of
\* scalars, or an object with the given members
Value(kind, data, methods, attrs, call, dict) ==
  [kind |-> kind, data |-> data, methods |-> methods, attrs |-> attrs,
   call |-> call, dict |-> dict]

NoMethods == [m \in MethodNames |-> Absent]
NoAttrs == [a \in AttrNames |-> Absent]
NotCallable == [kind |-> "absent", ret |-> Absent]

FrameValue(df) == Value("DataFrame", df, NoMethods, NoAttrs, NotCallable, FALSE)
ListValue(d) == Value("list", d, NoMethods, NoAttrs, NotCallable, FALSE)
DictValue ==
  Value("dict_scalars", NoData, NoMethods, [NoAttrs EXCEPT !["items"] = Other],
        NotCallable, FALSE)
Object(methods, attrs, call, dict) == Value("object", NoData, methods, attrs, call, dict)

\* the provider of a filing whose accessors return the given tables
Provider(bs, is, cf) ==
  [latest |-> "filing", balance_sheet |-> bs, income_statement |-> is,
   cashflow_statement |-> [kind |-> "returns", ret |-> cf],
   cash_flow |-> [kind |-> "absent", ret |-> NoneValue]]

NoEd == [done |-> FALSE, r |-> EdOut("", NoData, <<>>)]
NoNs == [done |-> FALSE, r |-> NsOut("", Absent, 0, <<>>)]

\* the state after the caller built its tables h and arguments a
Start(h, a) ==
  /\ heap = h
  /\ given = h
  /\ args = a
  /\ self = NoSelf
  /\ ret = NoRet
  /\ statements = Provider(FrameValue(h[1]), FrameValue(h[2]),
                           IF Len(h) > 2 THEN FrameValue(h[3]) ELSE NoneValue)
  /\ fetched = NoFetch
  /\ value = NoneValue
  /\ ed = NoEd
  /\ ns = NoNs

\* tables of every key shape, with and without a "period" column
InitKeys ==
  \E bi \in IndexSeqs, ii \in IndexSeqs, bc \in BOOLEAN, ic \in BOOLEAN,
     cf \in {"none", "column"},
     ps \in {NoPeriods, Periods(<<PyStr(2), PyStr(10), PyStr(2)>>)} :
    LET bs == Shaped(NumberedTable(BalanceColumns, bi), bc)
        is == Shaped(NumberedTable(IncomeColumns, ii), ic)
        cft == Shaped(NumberedTable({"operating_cash_flow"}, <<PyStr(10), PyStr(10)>>),
                      cf = "column")
    IN IF cf = "none"
       THEN Start(<<bs, is>>, Args(NoneRef, ps))
       ELSE Start(<<bs, is, cft>>, Args(3, ps))

\* cells: the integers -MaxVal..MaxVal, nan, None and a non-numeric string
Cells == {PyInt(n) : n \in -MaxVal..MaxVal} \cup {PyNaN, PyNone, PyText}

PeriodArgs == {NoPeriods} \cup {Periods(l) : l \in PeriodLists}

OneRow(columns, key, cells) ==
  DataFrame(columns, <<key>>, <<[c \in columns |-> cells[c]]>>)

Ones == [c \in BalanceColumns \cup IncomeColumns |-> PyInt(1)]

\* one-row tables: every content of the two cells a ratio reads, and every
\* set of columns
InitCells ==
  \/ \E k \in Keys, ca \in Cells, cl \in Cells, ps \in PeriodArgs :
       Start(<<OneRow(BalanceColumns, k,
                      [Ones EXCEPT !["current_assets"] = ca, !["current_liabilities"] = cl]),
               OneRow(IncomeColumns, PyStr(2), Ones)>>,
             Args(NoneRef, ps))
  \/ \E k \in Keys, ik \in {PyStr(2), PyStr(10)}, ni \in Cells, ta \in Cells,
        ps \in PeriodArgs :
       Start(<<OneRow(BalanceColumns, k, [Ones EXCEPT !["total_assets"] = ta]),
               OneRow(IncomeColumns, ik, [Ones EXCEPT !["net_income"] = ni])>>,
             Args(NoneRef, ps))
  \/ \E bcols \in SUBSET BalanceColumns, icols \in SUBSET IncomeColumns,
        ps \in {NoPeriods, Periods(<<PyStr(2)>>)} :
       Start(<<OneRow(bcols, PyStr(2), Ones), OneRow(icols, PyStr(2), Ones)>>,
             Args(NoneRef, ps))

\* two tables a conversion can return, and the rows of a list of row dicts
Frame(n) == OneRow({"value"}, PyStr(n), [c \in {"value"} |-> PyInt(n)])

RowDicts ==
  [columns |-> {"period", "value"}, index |-> <<>>,
   rows |-> <<[c \in {"period", "value"} |-> IF c = "period" THEN PyStr(2) ELSE PyInt(3)]>>]

MethodYields ==
  {Raises, Other, Yield("DataFrame", Frame(1)), Yield("DataFrame", Frame(2)),
   Yield("list", RowDicts)}

AttrYields ==
  {Other, Yield("DataFrame", Frame(1)), Yield("list", RowDicts),
   Yield("dict_scalars", NoData)}

\* objects with one tabular attribute or a field bag, and plain values
AttrObjects ==
  {Object([NoMethods EXCEPT !["to_frame"] = y], [NoAttrs EXCEPT ![a] = v], NotCallable, d) :
     y \in {Absent, Raises}, a \in AttrNames, v \in AttrYields \cup {Absent}, d \in BOOLEAN}
  \cup {FrameValue(Frame(1)), NoneValue, ListValue(RowDicts), DictValue}

\* what a callable returns: a table, None, an object with one conversion
\* method, or another callable
Returned ==
  {FrameValue(Frame(1)), NoneValue, Object(NoMethods, NoAttrs, NotCallable, FALSE),
   Object(NoMethods, NoAttrs, [kind |-> "returns", ret |-> FrameValue(Frame(2))], FALSE)}
  \cup {Object([NoMethods EXCEPT ![m] = y], NoAttrs, NotCallable, FALSE) :
          m \in {"to_pandas", "to_frame"}, y \in MethodYields}

\* functions, bound methods and callable objects
Callables ==
  {Object([NoMethods EXCEPT !["to_frame"] = y], NoAttrs, c, d) :
     y \in {Absent, Raises, Yield("DataFrame", Frame(2))},
     c \in {[kind |-> "raises", ret |-> NoneValue]}
             \cup {[kind |-> "returns", ret |-> r] : r \in Returned},
     d \in BOOLEAN}

\* an object exposing the conversion methods of f and no others
MethodObject(f) ==
  Object([m \in MethodNames |-> IF m \in DOMAIN f THEN f[m] ELSE Absent],
         NoAttrs, NotCallable, FALSE)

\* the sets of at most MaxMethods method names
Exposable == {e \in SUBSET MethodNames : Cardinality(e) <= MaxMethods}

\* what a statement accessor of the provider can hand out
StatementValues ==
  {FrameValue(WithPeriodColumn(Frame(1))), NoneValue, ListValue(RowDicts),
   Object(NoMethods, NoAttrs, NotCallable, FALSE),
   Object([NoMethods EXCEPT !["to_frame"] = Raises,
                            !["to_df"] = Yield("DataFrame", Frame(2))],
          NoAttrs, NotCallable, FALSE)}

Providers ==
  {[latest |-> l, balance_sheet |-> bs, income_statement |-> FrameValue(Frame(2)),
    cashflow_statement |-> cs, cash_flow |-> cf] :
     l \in {"None", "filing"},
     bs \in {FrameValue(Frame(1)), Object(NoMethods, NoAttrs, NotCallable, FALSE)},
     cs \in {[kind |-> "raises", ret |-> NoneValue]}
              \cup {[kind |-> "returns", ret |-> v] : v \in StatementValues},
     cf \in {[kind |-> "absent", ret |-> NoneValue], [kind |-> "raises", ret |-> NoneValue]}
              \cup {[kind |-> "returns", ret |-> v] : v \in StatementValues}}

InitCoerce ==
  /\ heap = <<>>
  /\ given = <<>>
  /\ args = Args(NoneRef, NoPeriods)
  /\ self = NoSelf
  /\ ret = NoRet
  /\ fetched = NoFetch
  /\ ed = NoEd
  /\ ns = NoNs
  /\ \/ /\ \E e \in Exposable : \E f \in [e -> MethodYields] : value = MethodObject(f)
        /\ statements = Provider(NoneValue, NoneValue, NoneValue)
     \/ /\ value \in AttrObjects \cup Callables
        /\ statements = Provider(NoneValue, NoneValue, NoneValue)
     \/ /\ value = NoneValue
        /\ statements \in Providers

\* ----------------------------------------------------------------- actions
Construct ==
  /\ ~self.built
  /\ LET r == FinancialRatioAnalyzer_init(heap, args)
     IN heap' = r.heap /\ self' = r.self
  /\ UNCHANGED <<given, args, ret, statements, fetched, value, ed, ns>>

CallCurrentRatio ==
  /\ self.built
  /\ ret' = calculate_current_ratio(heap, self)
  /\ UNCHANGED <<heap, given, args, self, statements, fetched, value, ed, ns>>

CallReturnOnAssets ==
  /\ self.built
  /\ ret' = calculate_return_on_assets(heap, self)
  /\ UNCHANGED <<heap, given, args, self, statements, fetched, value, ed, ns>>

Fetch ==
  /\ ~fetched.done
  /\ fetched' = fetch_and_prepare_statements(statements)
  /\ UNCHANGED <<heap, given, args, self, ret, statements, value, ed, ns>>

CallEnsureDataframe ==
  /\ ~ed.done
  /\ ed' = [done |-> TRUE, r |-> ensure_dataframe(value)]
  /\ UNCHANGED <<heap, given, args, self, ret, statements, fetched, value, ns>>

CallNormalizeStatement ==
  /\ ~ns.done
  /\ ns' = [done |-> TRUE, r |-> normalize_statement(value)]
  /\ UNCHANGED <<heap, given, args, self, ret, statements, fetched, value, ed>>

NextKeys == Construct \/ CallCurrentRatio \/ CallReturnOnAssets \/ Fetch

SpecKeys == InitKeys /\ [][NextKeys]_vars

NextCells == Construct \/ CallCurrentRatio \/ CallReturnOnAssets

SpecCells == InitCells /\ [][NextCells]_vars

NextCoerce == CallEnsureDataframe \/ CallNormalizeStatement \/ Fetch

SpecCoerce == InitCoerce /\ [][NextCoerce]_vars

\* ================================================================== claims
\* the period values of a caller's table, in row order: its "period" column
\* when it has one, its row keys otherwise
InputKeys(df) ==
  IF "period" \in df.columns THEN [i \in 1..Len(df.rows) |-> df.rows[i]["period"]]
  ELSE df.index

Unique(seq) == \A i, j \in 1..Len(seq) : seq[i] = seq[j] => i = j

EngineRefs == {self.balance_sheet, self.income_stmt, self.cash_flow} \ {NoneRef}

Called == ret.op /= ""

\* the rows of df whose key has the string form p
RowsOf(df, p) == {i \in 1..Len(df.index) : str(df.index[i]) = p}

\* the rows a lookup of p is about: those found under the key p itself, else
\* those whose key has the string form p
RowsAt(df, p) == IF loc(df, p) /= {} THEN loc(df, p) ELSE RowsOf(df, p)

\* p names exactly one row of df and that row's cell in col converts
Converts(df, p, col) ==
  /\ Cardinality(RowsAt(df, p)) = 1
  /\ float(df.rows[CHOOSE i \in RowsAt(df, p) : TRUE][col]).exc = ""

\* C1: once the required columns exist, a ratio call never raises: it
\* returns a (possibly partial) result sequence whatever the row keys, the
\* cells and the Period Set are.
C1_NeverRaisesOnceColumnsExist ==
  (Called /\ ret.exc /= "ValueError") => ret.exc = ""

\* C3: calculate_current_ratio returns exactly one result for each entry of
\* the Period Set that is among the balance sheet's period keys and whose
\* two cells convert, none for any other entry, in Period Set order.
C3_OneResultPerCoveredPeriod ==
  (ret.op = "calculate_current_ratio" /\ ret.exc /= "ValueError") =>
    LET bs == heap[self.balance_sheet]
        covered(p) == /\ p \in Range(astype_str(bs.index))
                      /\ Converts(bs, p, "current_assets")
                      /\ Converts(bs, p, "current_liabilities")
        want == SelectSeq(self.periods, covered)
    IN /\ ret.exc = ""
       /\ Len(ret.results) = Len(want)
       /\ \A k \in 1..Len(want) :
            ret.results[k].period = want[k] /\ ret.results[k].name = "Current Ratio"

\* the same statement of C3 for the calls that return
C3_WhenTheCallReturns ==
  (ret.op = "calculate_current_ratio" /\ ret.exc = "") => C3_OneResultPerCoveredPeriod

\* C7 as claimed: after the "period" column is promoted to the row key, no
\* table of the engine and no table returned by the fetch has two rows with
\* the same period key.
C7_PeriodKeysUnique ==
  /\ (self.built /\ "period" \in given[1].columns) =>
       Unique(heap[self.balance_sheet].index)
  /\ (self.built /\ "period" \in given[2].columns) =>
       Unique(heap[self.income_stmt].index)
  /\ (self.built /\ self.cash_flow /= NoneRef /\ "period" \in given[3].columns) =>
       Unique(heap[self.cash_flow].index)
  /\ (fetched.done /\ fetched.exc = "") =>
       /\ "period" \in given[1].columns => Unique(fetched.bs_df.index)
       /\ "period" \in given[2].columns => Unique(fetched.is_df.index)
       /\ (~fetched.cf_none /\ "period" \in given[3].columns) => Unique(fetched.cf_df.index)

\* C7 amended: promoting the "period" column makes the row keys exactly the
\* column's values in row order, duplicates retained (the fetch also turns
\* each key into its string form); the other columns and cells are kept.
C7_KeysAreThePeriodValues ==
  /\ self.built =>
       /\ heap[self.balance_sheet].index = InputKeys(given[1])
       /\ heap[self.income_stmt].index = InputKeys(given[2])
       /\ self.cash_flow /= NoneRef => heap[self.cash_flow].index = InputKeys(given[3])
       /\ \A r \in EngineRefs : "period" \notin heap[r].columns
  /\ (fetched.done /\ fetched.exc = "") =>
       /\ fetched.bs_df.index = astype_str(InputKeys(given[1]))
       /\ fetched.is_df.index = astype_str(InputKeys(given[2]))
       /\ ~fetched.cf_none => fetched.cf_df.index = astype_str(InputKeys(given[3]))
       /\ "period" \notin fetched.bs_df.columns \cup fetched.is_df.columns

\* a duplicated period value of a "period" column is a duplicated row key
\* of the engine's table and of the fetched table
C7_Witness ==
  /\ self.built /\ fetched.done /\ fetched.exc = ""
  /\ "period" \in given[1].columns
  /\ ~Unique(InputKeys(given[1]))
  /\ ~Unique(heap[self.balance_sheet].index)
  /\ ~Unique(fetched.bs_df.index)

\* C8: the Period Set is the caller's list when one is given; otherwise the
\* lexicographically sorted, duplicate-free intersection of the string forms
\* of the balance-sheet and income-statement period keys, whatever the
\* cash-flow table holds.
C8_PeriodSet ==
  self.built =>
    IF args.periods.given THEN self.periods = args.periods.list
    ELSE /\ Range(self.periods) =
              Range(astype_str(InputKeys(given[1]))) \cap Range(astype_str(InputKeys(given[2])))
         /\ \A i \in 1..(Len(self.periods) - 1) :
              SeqLess(Digits(self.periods[i].v), Digits(self.periods[i + 1].v))

\* "10" sorts before "2", and the cash-flow keys play no part
C8_Witness ==
  /\ self.built /\ ~args.periods.given
  /\ self.periods = <<PyStr(10), PyStr(2)>>
  /\ self.cash_flow /= NoneRef
  /\ PyInt(2) \in Range(InputKeys(given[1]))

\* C9: every table the caller handed over keeps its columns, row keys and
\* cells through construction and through every ratio call.
C9_CallerTablesUnchanged ==
  \A r \in DOMAIN given : heap[r] = given[r]

\* a ratio call was made on an engine that promoted "period" on its copies
C9_Witness ==
  /\ self.built /\ Called
  /\ self.cash_flow /= NoneRef
  /\ \A r \in DOMAIN given : "period" \in given[r].columns
  /\ \A r \in EngineRefs : "period" \notin heap[r].columns /\ r \notin DOMAIN given
  /\ C9_CallerTablesUnchanged

\* ------------------------------------------------------------ C2 and C4
MissingOf(df, cols) == SelectSeq(cols, LAMBDA c : c \notin df.columns)

\* C2 as claimed: a call whose required columns are not all present fails
\* before any period is processed, and the error lists every missing
\* required column of the call (for calculate_return_on_assets net_income
\* and total_assets when both are absent); nothing is returned.
C2_ErrorListsEveryMissingColumn ==
  Called =>
    LET bs == heap[self.balance_sheet]
        is == heap[self.income_stmt]
        need == IF ret.op = "calculate_current_ratio"
                THEN MissingOf(bs, <<"current_assets", "current_liabilities">>)
                ELSE MissingOf(is, <<"net_income">>) \o MissingOf(bs, <<"total_assets">>)
    IN need /= <<>> =>
         /\ ret.exc = "ValueError"
         /\ ret.missing = need
         /\ ret.results = <<>> /\ ret.partial = <<>>

\* C2 amended: the error names one table and lists every required column
\* that table lacks: the balance sheet for calculate_current_ratio; for
\* calculate_return_on_assets the income statement is checked first, so
\* total_assets is listed only when net_income is present.
C2_ErrorListsMissingColumnsOfOneTable ==
  Called =>
    LET bs == heap[self.balance_sheet]
        is == heap[self.income_stmt]
        first == IF ret.op = "calculate_current_ratio"
                 THEN MissingOf(bs, <<"current_assets", "current_liabilities">>)
                 ELSE MissingOf(is, <<"net_income">>)
        second == IF ret.op = "calculate_current_ratio" THEN <<>>
                  ELSE MissingOf(bs, <<"total_assets">>)
        name == IF ret.op = "calculate_current_ratio" \/ first = <<>>
                THEN "balance_sheet" ELSE "income_stmt"
    IN IF first = <<>> /\ second = <<>> THEN ret.exc /= "ValueError"
       ELSE /\ ret.exc = "ValueError"
            /\ ret.missing = (IF first /= <<>> THEN first ELSE second)
            /\ ret.df_name = name
            /\ ret.results = <<>> /\ ret.partial = <<>>

\* both tables lack their column and the error of calculate_return_on_assets
\* lists net_income only
C2_Witness ==
  /\ ret.op = "calculate_return_on_assets" /\ ret.exc = "ValueError"
  /\ "net_income" \notin heap[self.income_stmt].columns
  /\ "total_assets" \notin heap[self.balance_sheet].columns
  /\ ret.missing = <<"net_income">> /\ ret.df_name = "income_stmt"

\* the numerator and denominator tables and columns of the last call
NumTable == IF ret.op = "calculate_current_ratio" THEN heap[self.balance_sheet]
            ELSE heap[self.income_stmt]
DenTable == heap[self.balance_sheet]
NumColumn == IF ret.op = "calculate_current_ratio" THEN "current_assets" ELSE "net_income"
DenColumn == IF ret.op = "calculate_current_ratio" THEN "current_liabilities"
             ELSE "total_assets"

\* entry i of the Period Set is among the period keys of the tables read
Present(i) ==
  /\ self.periods[i] \in Range(astype_str(DenTable.index))
  /\ self.periods[i] \in Range(astype_str(NumTable.index))

\* the lookup of entry i finds no row
LookupFails(i) ==
  Present(i) /\ (loc(DenTable, self.periods[i]) = {} \/ loc(NumTable, self.periods[i]) = {})

\* entry i was processed and passed the presence and the conversion checks
Passed(i) ==
  /\ \A j \in 1..i : ~LookupFails(j)
  /\ Present(i)
  /\ Cardinality(loc(NumTable, self.periods[i])) = 1
  /\ Cardinality(loc(DenTable, self.periods[i])) = 1
  /\ float(NumTable.rows[CHOOSE r \in loc(NumTable, self.periods[i]) : TRUE][NumColumn]).exc = ""
  /\ float(DenTable.rows[CHOOSE r \in loc(DenTable, self.periods[i]) : TRUE][DenColumn]).exc = ""

NumCell(i) == NumTable.rows[CHOOSE r \in loc(NumTable, self.periods[i]) : TRUE][NumColumn]
DenCell(i) == DenTable.rows[CHOOSE r \in loc(DenTable, self.periods[i]) : TRUE][DenColumn]

IsNumber(c) == c.tag \in {"int", "str"}

\* r is +inf for a zero denominator, else the quotient of the two cells
IsRatioOf(r, num, den) ==
  IF IsNumber(den) /\ den.v = 0 THEN r.kind = "inf"
  ELSE IF ~IsNumber(den) \/ ~IsNumber(num) THEN r.kind = "nan"
  ELSE r.kind = "num" /\ r.den /= 0 /\ r.num * den.v = r.den * num.v

\* C4: every period that passes the presence and conversion checks yields a
\* result: +inf when the denominator cell is exactly zero, whatever the
\* numerator, and numerator / denominator otherwise; it is neither skipped
\* nor an error.
C4_ZeroDenominatorIsInfinity ==
  (Called /\ ret.exc /= "ValueError") =>
    LET passed == SelectSeq([i \in 1..Len(self.periods) |-> i], Passed)
    IN /\ Len(ret.partial) = Len(passed)
       /\ \A k \in 1..Len(passed) :
            /\ ret.partial[k].period = self.periods[passed[k]]
            /\ IsRatioOf(ret.partial[k].result, NumCell(passed[k]), DenCell(passed[k]))

\* a negative numerator over a zero denominator gave +inf
C4_Witness ==
  /\ ret.op = "calculate_current_ratio" /\ ret.exc = ""
  /\ Len(ret.results) = 2
  /\ ret.results[1].result = Inf
  /\ heap[self.balance_sheet].rows[1]["current_assets"] = PyInt(-1)
  /\ heap[self.balance_sheet].rows[1]["current_liabilities"] = PyInt(0)

\* ------------------------------------------------------- C5, C6 and C10
Position(m) == CHOOSE i \in 1..Len(ED_METHODS) : ED_METHODS[i] = m

\* a conversion method X raises and a later one Y returns a table
FailsThenSucceeds(x, y) ==
  /\ value.kind = "object"
  /\ x < y
  /\ value.methods[ED_METHODS[x]].kind = "raises"
  /\ value.methods[ED_METHODS[y]].kind = "DataFrame"

\* C5 as claimed: when a conversion method X raises and a method Y later in
\* the probe order returns a table, ensure_dataframe returns Y's table, does
\* not propagate X's failure, and invokes each probed method at most once.
C5_ReturnsTableOfLaterMethod ==
  ed.done =>
    \A x, y \in 1..Len(ED_METHODS) :
      FailsThenSucceeds(x, y) =>
        /\ ed.r.exc = ""
        /\ ed.r.df = value.methods[ED_METHODS[y]].data
        /\ Unique(ed.r.calls)

\* C5 amended: the same, provided no method probed before Y returns a table
\* or a list/mapping/tuple a table can be built from; then X was invoked,
\* its failure swallowed, and Y's table returned.
C5_FallsBackToLaterMethod ==
  ed.done =>
    \A x, y \in 1..Len(ED_METHODS) :
      (/\ FailsThenSucceeds(x, y)
       /\ \A z \in 1..(y - 1) : value.methods[ED_METHODS[z]].kind \notin {"DataFrame", "list"})
      => /\ ed.r.exc = ""
         /\ ed.r.df = value.methods[ED_METHODS[y]].data
         /\ Unique(ed.r.calls)
         /\ ED_METHODS[x] \in Range(ed.r.calls)
         /\ ed.r.calls[Len(ed.r.calls)] = ED_METHODS[y]

\* to_frame raised, to_df returned the table
C5_Witness ==
  /\ ed.done
  /\ value.methods["to_frame"] = Raises
  /\ value.methods["to_df"] = Yield("DataFrame", Frame(2))
  /\ ed.r.calls = <<"to_frame", "to_df">>
  /\ ed.r.exc = "" /\ ed.r.df = Frame(2)

\* C6 as claimed: ensure_dataframe invokes a callable value that is not a
\* table exactly once and returns the coercion of what the call returned.
C6_CoerceInvokesCallable ==
  (ed.done /\ value.kind /= "DataFrame" /\ value.call.kind = "returns") =>
    /\ ed.r.self_calls = 1
    /\ ed.r.exc = ensure_dataframe(value.call.ret).exc
    /\ ed.r.df = ensure_dataframe(value.call.ret).df

\* what normalize_statement makes of a value it does not call: the result of
\* the first conversion method it has, else the value itself if a table
NsExpected(v, out) ==
  LET has == {i \in 1..Len(NS_METHODS) : v.methods[NS_METHODS[i]].kind /= "absent"}
      i0 == CHOOSE i \in has : \A j \in has : i <= j
  IN IF has /= {}
     THEN IF v.methods[NS_METHODS[i0]].kind = "raises" THEN out.exc = "Exception"
          ELSE out.exc = "" /\ out.out = v.methods[NS_METHODS[i0]]
     ELSE IF v.kind = "DataFrame" THEN out.exc = "" /\ out.out = Yield("DataFrame", v.data)
     ELSE out.exc = "TypeError"

\* the value offers ensure_dataframe nothing but its being callable
OnlyCallable(v) ==
  /\ v.kind = "object" /\ v.call.kind /= "absent" /\ ~v.dict
  /\ \A m \in Range(ED_METHODS) : v.methods[m].kind \notin {"DataFrame", "list"}
  /\ \A a \in AttrNames : v.attrs[a].kind \notin {"DataFrame", "list", "dict_scalars"}

\* C6 amended: normalize_statement invokes a callable value exactly once and
\* converts what the call returned by its remaining steps, without calling
\* a returned callable; ensure_dataframe has no such step: it never invokes
\* the value and rejects with TypeError a value that is only callable.
C6_NormalizeStatementInvokesCallable ==
  /\ (ns.done /\ value.call.kind = "returns") =>
       /\ ns.r.self_calls = 1
       /\ NsExpected(value.call.ret, ns.r)
  /\ (ns.done /\ value.call.kind = "raises") =>
       ns.r.self_calls = 1 /\ ns.r.exc = "Exception"
  /\ (ns.done /\ value.call.kind = "absent") => ns.r.self_calls = 0
  /\ (ed.done /\ OnlyCallable(value)) => ed.r.exc = "TypeError"

\* a callable returning a callable: called once by normalize_statement,
\* which then fails on the inner callable; rejected by ensure_dataframe
C6_Witness ==
  /\ ns.done /\ ed.done
  /\ value.call.kind = "returns"
  /\ value.call.ret.call.kind = "returns"
  /\ ns.r.self_calls = 1 /\ ns.r.exc = "TypeError"
  /\ OnlyCallable(value) /\ ed.r.exc = "TypeError"

\* the cash-flow statement cannot be obtained or converted
CashFlowFails ==
  \/ /\ statements.cashflow_statement.kind = "raises"
     /\ statements.cash_flow.kind /= "returns"
  \/ ensure_dataframe(cashflow_object(statements).obj).exc /= ""

\* C10: when the cash-flow statement cannot be obtained or converted, the
\* fetch still returns the balance-sheet and income-statement tables, with
\* None for the cash flow.
C10_CashFlowFailureDegrades ==
  (/\ fetched.done
   /\ statements.latest = "filing"
   /\ ensure_dataframe(statements.balance_sheet).exc = ""
   /\ ensure_dataframe(statements.income_statement).exc = ""
   /\ CashFlowFails)
  => /\ fetched.exc = ""
     /\ fetched.cf_none
     /\ fetched.bs_df = normalize(ensure_dataframe(statements.balance_sheet).df)
     /\ fetched.is_df = normalize(ensure_dataframe(statements.income_statement).df)

====
